---- MODULE Spec2Model ----
(***************************************************************************)
(* hector_timeit::Timer and hector_timeit::TimeBlock (src/src/timer.hpp).  *)
(*                                                                         *)
(* The timer is one record, whose fields carry the names of the C++        *)
(* members.  Every member function is an operator from the timer before    *)
(* the call and the clock samples the call takes to the timer after it;    *)
(* every action is one call of a member function by the owning thread.     *)
(* The two clocks are part of the state: a sample never lies before the    *)
(* previous sample of the same clock.                                      *)
(***************************************************************************)
EXTENDS Integers, Sequences, FiniteSets

VARIABLES
    timer,        \* the Timer: a record of its data members
    wall_clock,   \* the last instant read from high_resolution_clock
    cpu_clock,    \* the last instant read from the CPU-time clock
    block_alive,  \* a TimeBlock on the timer exists
    ended_,       \* TimeBlock::ended_
    aborted,      \* an assert has aborted the process
    fault,        \* the assert of the last call whose condition was false
    op,           \* the last call
    pre,          \* what the last call found: the running flag, the number
                  \* of committed runs, TimeBlock::ended_ and seg_elapsed
    ret,          \* what the last call returned
    seg_elapsed,  \* <<v>>: getElapsedTime() last returned v since the timer
                  \* was started; <<>>: it was not called since
    cycles,       \* start(); stop(); reset( true ) repetitions completed
    durations,    \* the wall accumulator after the stop() of each repetition
    call,         \* the last call in full: the timer it found, its boolean
                  \* argument and the samples its stop() took
    args,         \* a call of printStats or printTimeString: the function
                  \* and its arguments
    stream        \* what that call wrote to its stream

vars == <<timer, wall_clock, cpu_clock, block_alive, ended_, aborted, fault,
          op, pre, ret, seg_elapsed, cycles, durations, call, args, stream>>

-----------------------------------------------------------------------------
(* Bounds of the model.                                                    *)

\* the wall clock stops advancing at this instant (nanoseconds)
MaxWall == 2
\* the CPU clock stops advancing at this instant (nanoseconds)
MaxCpu == 1
\* the most a clock advances during one call
MaxTick == 1
\* the most repetitions of start(); stop(); reset( true ) that are counted
MaxCycles == 2
\* the longest series handed to printStats
MaxRuns == 3
\* how far from a threshold of the automatic unit the printed times lie
MaxMargin == 1

-----------------------------------------------------------------------------
(* Clock Sampler.                                                          *)

Min(a, b) == IF a <= b THEN a ELSE b

\* high_resolution_clock::now(): any instant not before the last one read
WallSamples(now) == now .. Min(now + MaxTick, MaxWall)

\* the value clock_gettime would store: any instant not before the last one
CpuSamples(now) == now .. Min(now + MaxTick, MaxCpu)

\* getCpuTime(val): FALSE and val untouched when clock_gettime fails,
\* TRUE and val = the sample otherwise
getCpuTime(old, ok, sample) == [valid |-> ok, val |-> IF ok THEN sample ELSE old]

\* duration_cast<nanoseconds>(end - start).count()
internalGetDuration(start, end) == end - start

\* C++ integer division by two: the quotient is truncated towards zero
Div2(x) == IF x >= 0 THEN x \div 2 ELSE -((-x) \div 2)

\* the sentinel of a run without a valid CPU measurement
Sentinel == -1

-----------------------------------------------------------------------------
(* Timer::start.  s = the samples the call takes, in the order it takes    *)
(* them: wall a, wall b, CPU a, CPU b.                                     *)

\* the two consecutive wall samples of one call, wc being the last instant
\* read from the wall clock: <<first, second>>
WallPairs(wc) ==
    { p \in WallSamples(wc) \X WallSamples(wc) : p[1] <= p[2] }

\* the two consecutive CPU samples of one call, cc being the last instant
\* read from the CPU clock; take1, take2 = whether the call takes the first
\* and the second.  A sample that is not taken, or that fails, moves nothing.
CpuPairs(cc, take1, take2) ==
    { c \in [c1 : CpuSamples(cc), ok1 : BOOLEAN, c2 : CpuSamples(cc), ok2 : BOOLEAN] :
        /\ c.c1 <= c.c2
        /\ IF take1 THEN c.ok1 \/ c.c1 = cc ELSE c.ok1 /\ c.c1 = cc
        /\ IF take2 THEN c.ok2 \/ c.c2 = c.c1 ELSE c.ok2 /\ c.c2 = c.c1 }

\* the samples of a call that takes none
NoSamples(wc, cc) ==
    [wa |-> wc, wb |-> wc, ca |-> cc, cb |-> cc, ca_ok |-> TRUE, cb_ok |-> TRUE]

\* the samples of start(): wall a, wall b, CPU a, CPU b
ValidStartSamples(t, wc, cc) ==
    IF t.running_ THEN { NoSamples(wc, cc) }
    ELSE { [wa |-> w[1], wb |-> w[2],
            ca |-> c.c1, ca_ok |-> c.ok1, cb |-> c.c2, cb_ok |-> c.ok2] :
             w \in WallPairs(wc), c \in CpuPairs(cc, TRUE, TRUE) }

\* a start() that lacks the early return of a running timer
start_NoRunningCheck(t, s) ==
    [t EXCEPT !.running_ = TRUE,
              !.start_a_ = s.wa,
              !.start_b_ = s.wb,
              !.cpu_time_valid_a_ = getCpuTime(t.cpu_start_a_, s.ca_ok, s.ca).valid,
              !.cpu_start_a_ = getCpuTime(t.cpu_start_a_, s.ca_ok, s.ca).val,
              !.cpu_time_valid_b_ = getCpuTime(t.cpu_start_b_, s.cb_ok, s.cb).valid,
              !.cpu_start_b_ = getCpuTime(t.cpu_start_b_, s.cb_ok, s.cb).val]

\* a start() that takes its samples and leaves running_ as it is
start_NotRunning(t, s) ==
    IF t.running_ THEN t
    ELSE [t EXCEPT !.start_a_ = s.wa,
                   !.start_b_ = s.wb,
                   !.cpu_time_valid_a_ = getCpuTime(t.cpu_start_a_, s.ca_ok, s.ca).valid,
                   !.cpu_start_a_ = getCpuTime(t.cpu_start_a_, s.ca_ok, s.ca).val,
                   !.cpu_time_valid_b_ = getCpuTime(t.cpu_start_b_, s.cb_ok, s.cb).valid,
                   !.cpu_start_b_ = getCpuTime(t.cpu_start_b_, s.cb_ok, s.cb).val]

start(t, s) ==
    IF t.running_ THEN t
    ELSE [t EXCEPT !.running_ = TRUE,
                   !.start_a_ = s.wa,
                   !.start_b_ = s.wb,
                   !.cpu_time_valid_a_ = getCpuTime(t.cpu_start_a_, s.ca_ok, s.ca).valid,
                   !.cpu_start_a_ = getCpuTime(t.cpu_start_a_, s.ca_ok, s.ca).val,
                   !.cpu_time_valid_b_ = getCpuTime(t.cpu_start_b_, s.cb_ok, s.cb).valid,
                   !.cpu_start_b_ = getCpuTime(t.cpu_start_b_, s.cb_ok, s.cb).val]

\* the clocks after start(): they advance only if the call sampled them
startWall(t, s, wc) == IF t.running_ THEN wc ELSE s.wb
startCpu(t, s, cc) == IF t.running_ THEN cc ELSE s.cb

-----------------------------------------------------------------------------
(* Timer::stop.  s = the samples the call takes, in the order it takes     *)
(* them: CPU b (only if both validity flags are set), CPU a (only if       *)
(* cpu_time_valid_a_ is set), wall b, wall a.                              *)

\* the samples of stop(): CPU b, CPU a, wall b, wall a
ValidStopSamples(t, wc, cc) ==
    IF ~t.running_ THEN { NoSamples(wc, cc) }
    ELSE { [wb |-> w[1], wa |-> w[2],
            cb |-> c.c1, cb_ok |-> c.ok1, ca |-> c.c2, ca_ok |-> c.ok2] :
             w \in WallPairs(wc),
             c \in CpuPairs(cc, t.cpu_time_valid_a_ /\ t.cpu_time_valid_b_,
                            t.cpu_time_valid_a_) }

\* cpu_time_valid_b_ and time_b after lines 154-157
stopValidB(t, s) ==
    IF t.cpu_time_valid_a_ /\ t.cpu_time_valid_b_
      THEN getCpuTime(0, s.cb_ok, s.cb).valid
      ELSE t.cpu_time_valid_b_

stopTimeB(t, s) ==
    IF t.cpu_time_valid_a_ /\ t.cpu_time_valid_b_
      THEN getCpuTime(0, s.cb_ok, s.cb).val
      ELSE 0

\* cpu_time_valid_a_ and time_a after lines 154-159
stopValidA(t, s) ==
    IF t.cpu_time_valid_a_
      THEN getCpuTime(0, s.ca_ok, s.ca).valid
      ELSE t.cpu_time_valid_a_

stopTimeA(t, s) ==
    IF t.cpu_time_valid_a_
      THEN getCpuTime(0, s.ca_ok, s.ca).val
      ELSE 0

\* a cpu_diff that is computed whatever the validity flags say
stopCpuDiff_IgnoresValidity(t, s) ==
    (stopTimeA(t, s) - t.cpu_start_a_) - (stopTimeB(t, s) - t.cpu_start_b_)

\* cpu_diff after lines 162-173
stopCpuDiff(t, s) ==
    IF stopValidA(t, s) /\ stopValidB(t, s)
      THEN (stopTimeA(t, s) - t.cpu_start_a_) - (stopTimeB(t, s) - t.cpu_start_b_)
      ELSE 0

\* the inner elapsed of lines 164-170 (read only when stopValidA)
stopCpuElapsed(t, s) ==
    IF stopValidB(t, s)
      THEN (stopTimeB(t, s) - t.cpu_start_b_) - Div2(stopCpuDiff(t, s))
      ELSE stopTimeA(t, s) - t.cpu_start_a_

\* a wall elapsed that leaves out the CPU term
stopWallElapsed_NoDrift(t, s) ==
    LET wall_time_b == internalGetDuration(t.start_b_, s.wb)
        wall_time_a == internalGetDuration(t.start_a_, s.wa)
    IN  wall_time_b + Div2(wall_time_b) - Div2(wall_time_a)

\* a wall elapsed that takes off the whole outer duration instead of half
stopWallElapsed_WholeOuter(t, s) ==
    LET wall_time_b == internalGetDuration(t.start_b_, s.wb)
        wall_time_a == internalGetDuration(t.start_a_, s.wa)
    IN  wall_time_b + Div2(wall_time_b) - wall_time_a - 2 * stopCpuDiff(t, s)

\* elapsed of lines 174-176
stopWallElapsed(t, s) ==
    LET wall_time_b == internalGetDuration(t.start_b_, s.wb)
        wall_time_a == internalGetDuration(t.start_a_, s.wa)
    IN  wall_time_b + Div2(wall_time_b) - Div2(wall_time_a) - 2 * stopCpuDiff(t, s)

\* which assert( elapsed >= 0 ) of the call has a false condition, if any
stopFault(t, s) ==
    IF ~t.running_ THEN "none"
    ELSE IF stopValidA(t, s) /\ ~(stopCpuElapsed(t, s) >= 0) THEN "cpu_assert"
    ELSE IF ~(stopWallElapsed(t, s) >= 0) THEN "wall_assert"
    ELSE "none"

\* a stop() that lacks the early return of a stopped timer
stop_NoRunningCheck(t, s) ==
    [t EXCEPT !.cpu_time_valid_b_ = stopValidB(t, s),
              !.cpu_time_valid_a_ = stopValidA(t, s),
              !.elapsed_cpu_time_ = IF stopValidA(t, s)
                                      THEN @ + stopCpuElapsed(t, s)
                                      ELSE @,
              !.elapsed_time_ = @ + stopWallElapsed(t, s),
              !.running_ = FALSE]

\* a stop() that also commits the segment it ends as a run
stop_CommitsRun(t, s) ==
    IF ~t.running_ THEN t
    ELSE [t EXCEPT !.cpu_time_valid_b_ = stopValidB(t, s),
                   !.cpu_time_valid_a_ = stopValidA(t, s),
                   !.elapsed_cpu_time_ = IF stopValidA(t, s)
                                           THEN @ + stopCpuElapsed(t, s)
                                           ELSE @,
                   !.elapsed_time_ = @ + stopWallElapsed(t, s),
                   !.run_times_ = Append(@, stopWallElapsed(t, s)),
                   !.cpu_run_times_ = Append(@, Sentinel),
                   !.running_ = FALSE]

\* the call run to its end (every build in which no assert aborts it)
stop(t, s) ==
    IF ~t.running_ THEN t
    ELSE [t EXCEPT !.cpu_time_valid_b_ = stopValidB(t, s),
                   !.cpu_time_valid_a_ = stopValidA(t, s),
                   !.elapsed_cpu_time_ = IF stopValidA(t, s)
                                           THEN @ + stopCpuElapsed(t, s)
                                           ELSE @,
                   !.elapsed_time_ = @ + stopWallElapsed(t, s),
                   !.running_ = FALSE]

\* the timer as abort() leaves it when an assert of the call fails
stopAborted(t, s) ==
    [t EXCEPT !.cpu_time_valid_b_ = stopValidB(t, s),
              !.cpu_time_valid_a_ = stopValidA(t, s),
              !.elapsed_cpu_time_ = IF stopFault(t, s) = "wall_assert" /\ stopValidA(t, s)
                                      THEN @ + stopCpuElapsed(t, s)
                                      ELSE @]

\* the clocks after stop()
stopWall(t, s, wc) == IF t.running_ THEN s.wa ELSE wc
stopCpu(t, s, cc) == IF t.running_ THEN s.ca ELSE cc

-----------------------------------------------------------------------------
(* Timer::reset, after its call of stop().                                 *)

\* a reset that commits a run whose accumulated wall time is zero
resetTail_CommitsZero(t, new_run) ==
    [t EXCEPT !.run_times_ = IF new_run
                               THEN IF t.elapsed_time_ >= 0
                                      THEN Append(@, t.elapsed_time_)
                                      ELSE @
                               ELSE <<>>,
              !.cpu_run_times_ = IF new_run
                                   THEN IF t.elapsed_time_ >= 0
                                          THEN Append(@, IF t.cpu_time_valid_a_
                                                           THEN t.elapsed_cpu_time_
                                                           ELSE Sentinel)
                                          ELSE @
                                   ELSE <<>>,
              !.elapsed_time_ = 0,
              !.elapsed_cpu_time_ = 0,
              !.cpu_time_valid_a_ = TRUE,
              !.cpu_time_valid_b_ = TRUE]

\* a reset that clears the wall history only
resetTail_KeepsCpuRuns(t, new_run) ==
    [t EXCEPT !.run_times_ = IF new_run
                               THEN IF t.elapsed_time_ > 0
                                      THEN Append(@, t.elapsed_time_)
                                      ELSE @
                               ELSE <<>>,
              !.cpu_run_times_ = IF new_run /\ t.elapsed_time_ > 0
                                   THEN Append(@, IF t.cpu_time_valid_a_
                                                    THEN t.elapsed_cpu_time_
                                                    ELSE Sentinel)
                                   ELSE @,
              !.elapsed_time_ = 0,
              !.elapsed_cpu_time_ = 0,
              !.cpu_time_valid_a_ = TRUE,
              !.cpu_time_valid_b_ = TRUE]

resetTail(t, new_run) ==
    [t EXCEPT !.run_times_ = IF new_run
                               THEN IF t.elapsed_time_ > 0
                                      THEN Append(@, t.elapsed_time_)
                                      ELSE @
                               ELSE <<>>,
              !.cpu_run_times_ = IF new_run
                                   THEN IF t.elapsed_time_ > 0
                                          THEN Append(@, IF t.cpu_time_valid_a_
                                                           THEN t.elapsed_cpu_time_
                                                           ELSE Sentinel)
                                          ELSE @
                                   ELSE <<>>,
              !.elapsed_time_ = 0,
              !.elapsed_cpu_time_ = 0,
              !.cpu_time_valid_a_ = TRUE,
              !.cpu_time_valid_b_ = TRUE]

reset(t, new_run, s) == resetTail(stop(t, s), new_run)

-----------------------------------------------------------------------------
(* The const member functions.  w, c = the sample the call takes, ok =     *)
(* whether getCpuTime succeeds.                                            *)

\* a getElapsedTime() with the arguments of internalGetDuration exchanged
getElapsedTime_Reversed(t, w) ==
    t.elapsed_time_ + (IF t.running_ THEN internalGetDuration(w, t.start_b_) ELSE 0)

\* a getElapsedTime() that measures from the first start sample
getElapsedTime_FromA(t, w) ==
    t.elapsed_time_ + (IF t.running_ THEN internalGetDuration(t.start_a_, w) ELSE 0)

getElapsedTime(t, w) ==
    t.elapsed_time_ + (IF t.running_ THEN internalGetDuration(t.start_b_, w) ELSE 0)

getElapsedCpuTime(t, ok, c) ==
    IF ~t.cpu_time_valid_a_ THEN -1
    ELSE IF t.running_
           THEN IF ~getCpuTime(0, ok, c).valid
                  THEN -1
                  ELSE t.elapsed_cpu_time_ + (getCpuTime(0, ok, c).val - t.cpu_start_a_)
           ELSE t.elapsed_cpu_time_

getRunTimes(t, w) ==
    IF getElapsedTime(t, w) # 0
      THEN Append(t.run_times_, getElapsedTime(t, w))
      ELSE t.run_times_

getCpuRunTimes(t, ok, c) ==
    IF getElapsedCpuTime(t, ok, c) > 0
      THEN Append(t.cpu_run_times_, getElapsedCpuTime(t, ok, c))
      ELSE t.cpu_run_times_

\* the samples a getter takes: none when the timer is not running
GetWallSamples(t, wc) == IF t.running_ THEN WallSamples(wc) ELSE {wc}

GetCpuSamples(t, cc) ==
    IF t.running_ /\ t.cpu_time_valid_a_
      THEN { x \in [ok : BOOLEAN, c : CpuSamples(cc)] : x.ok \/ x.c = cc }
      ELSE { [ok |-> TRUE, c |-> cc] }

-----------------------------------------------------------------------------
(* printTimeString.  A time is kept as getCpuTime reads it from the clock, *)
(* whole seconds and the nanoseconds within the second, because 5E9 lies   *)
(* beyond the integers of the model checker; what is written to the stream *)
(* is kept as the unit it ends with.                                       *)

\* nanoseconds in a second
Giga == 1000000000

\* the time s seconds and n nanoseconds, 0 <= ns < Giga
Timespec(s, n) == [s |-> s + (n \div Giga), ns |-> n % Giga]

\* time < bound
Less(time, bound) == time.s < bound.s \/ (time.s = bound.s /\ time.ns < bound.ns)

TimeUnit == {"Default", "Seconds", "Milliseconds", "Microseconds", "Nanoseconds"}

\* a printTimeString whose automatic unit changes one nanosecond late
printTimeString_Late(time, print_time_unit) ==
    CASE print_time_unit = "Seconds" -> "s"
      [] print_time_unit = "Milliseconds" -> "ms"
      [] print_time_unit = "Microseconds" -> "us"
      [] print_time_unit = "Nanoseconds" -> "ns"
      [] OTHER -> IF ~Less(Timespec(0, 5000), time) THEN "ns"
                  ELSE IF ~Less(Timespec(0, 5000000), time) THEN "us"
                  ELSE IF ~Less(Timespec(5, 0), time) THEN "ms"
                  ELSE "s"

printTimeString(time, print_time_unit) ==
    CASE print_time_unit = "Seconds" -> "s"
      [] print_time_unit = "Milliseconds" -> "ms"
      [] print_time_unit = "Microseconds" -> "us"
      [] print_time_unit = "Nanoseconds" -> "ns"
      [] OTHER -> IF Less(time, Timespec(0, 5000)) THEN "ns"
                  ELSE IF Less(time, Timespec(0, 5000000)) THEN "us"
                  ELSE IF Less(time, Timespec(5, 0)) THEN "ms"
                  ELSE "s"

-----------------------------------------------------------------------------
(* printStats.  A double is kept as the exact quotient num / den of what   *)
(* the code divides, or as NaN where the code divides zero by zero.        *)

\* the seed of min; the model's integers end here, above every entry
INT64_MAX == 2147483647

NaN == [nan |-> TRUE, num |-> 0, den |-> 1]

Quotient(n, d) == [nan |-> FALSE, num |-> n, den |-> d]

\* an entry that goes into the statistics although it is the sentinel
counted_All(time) == TRUE

\* the entries the two loops do not skip: if ( time == -1 ) continue;
counted(time) == time # Sentinel

\* max, min, sum and count after the first loop, from acc
RECURSIVE firstLoop(_, _)
firstLoop(run_times, acc) ==
    IF run_times = <<>> THEN acc
    ELSE LET time == Head(run_times)
         IN  firstLoop(Tail(run_times),
                       IF ~counted(time) THEN acc
                       ELSE [max |-> IF time > acc.max THEN time ELSE acc.max,
                             min |-> IF time < acc.min THEN time ELSE acc.min,
                             sum |-> acc.sum + time,
                             count |-> acc.count + 1])

\* var after the second loop, times count * count: time - mean is
\* ( count * time - sum ) / count
RECURSIVE secondLoop(_, _, _)
secondLoop(run_times, sum, count) ==
    IF run_times = <<>> THEN 0
    ELSE LET time == Head(run_times)
         IN  (IF ~counted(time) THEN 0
              ELSE (count * time - sum) * (count * time - sum))
             + secondLoop(Tail(run_times), sum, count)

printStats(run_times, print_time_unit) ==
    LET acc == firstLoop(run_times, [max |-> 0, min |-> INT64_MAX, sum |-> 0, count |-> 0])
        \* line 413: (double)sum / count
        mean == IF acc.count = 0 THEN NaN ELSE Quotient(acc.sum, acc.count)
        \* line 420: var /= ( count - 1 ), count - 1 being SIZE_MAX for count 0
        var == IF acc.count = 0 THEN Quotient(0, 1)
               ELSE IF acc.count = 1 THEN NaN
               ELSE Quotient(secondLoop(run_times, acc.sum, acc.count),
                             acc.count * acc.count * (acc.count - 1))
        zero_division == (IF acc.count = 0 THEN {"mean"} ELSE {})
                           \cup (IF acc.count = 1 THEN {"var"} ELSE {})
    IN  IF acc.count = 0
          THEN [text |-> "None of the runs had valid times!",
                count |-> acc.count, zero_division |-> zero_division]
          ELSE [text |-> "statistics",
                count |-> acc.count, zero_division |-> zero_division,
                mean |-> mean, var |-> var,
                max |-> acc.max, min |-> acc.min, sum |-> acc.sum,
                longest |-> printTimeString(Timespec(0, acc.max), print_time_unit),
                shortest |-> printTimeString(Timespec(0, acc.min), print_time_unit),
                total |-> printTimeString(Timespec(0, acc.sum), print_time_unit),
                warning |-> acc.count # Len(run_times)]

-----------------------------------------------------------------------------
(* TimeBlock::end, as far as the timer goes: stop() first, then            *)
(* reset( true ) unless the block has ended before.  The stop() inside     *)
(* reset finds the timer stopped.                                          *)

\* an end() that lacks the ended_ check
end_NoEndedCheck(t, ended, s) == resetTail(stop(t, s), TRUE)

end(t, ended, s) ==
    IF ended THEN stop(t, s) ELSE resetTail(stop(t, s), TRUE)

-----------------------------------------------------------------------------
(* The state.                                                              *)

\* the members of a Timer right after their default initialisers
Timer0 ==
    [run_times_ |-> <<>>, cpu_run_times_ |-> <<>>,
     start_a_ |-> 0, start_b_ |-> 0,
     elapsed_time_ |-> 0, elapsed_cpu_time_ |-> 0,
     cpu_start_a_ |-> 0, cpu_start_b_ |-> 0,
     running_ |-> FALSE,
     cpu_time_valid_a_ |-> TRUE, cpu_time_valid_b_ |-> TRUE]

\* what a call without a result leaves in ret
NoRet == [val |-> 0, run_times |-> <<>>, cpu_run_times |-> <<>>]

\* call, args and stream where they are not observed
NoCall == [found |-> Timer0, arg |-> FALSE, sampled |-> NoSamples(0, 0)]

NoArgs ==
    [fn |-> "", run_times |-> <<>>, time |-> Timespec(0, 0), print_time_unit |-> "Default"]

NoStream == [text |-> ""]

\* what a call finds
Found ==
    [running |-> timer.running_, runs |-> Len(timer.run_times_), ended |-> ended_,
     seen |-> seg_elapsed]

\* Timer::Timer( name, unit, autostart, print_on_destruct )
Init ==
    /\ \E autostart \in BOOLEAN :
         \E s \in ValidStartSamples(Timer0, 0, 0) :
           /\ autostart \/ s = CHOOSE x \in ValidStartSamples(Timer0, 0, 0) : TRUE
           /\ timer = IF autostart THEN start(Timer0, s) ELSE Timer0
           /\ wall_clock = IF autostart THEN startWall(Timer0, s, 0) ELSE 0
           /\ cpu_clock = IF autostart THEN startCpu(Timer0, s, 0) ELSE 0
    /\ block_alive = FALSE
    /\ ended_ = FALSE
    /\ aborted = FALSE
    /\ fault = "none"
    /\ op = "Timer"
    /\ pre = [running |-> FALSE, runs |-> 0, ended |-> FALSE, seen |-> <<>>]
    /\ ret = NoRet
    /\ seg_elapsed = <<>>
    /\ cycles = 0
    /\ durations = <<>>
    /\ call = NoCall
    /\ args = NoArgs
    /\ stream = NoStream

\* A call of start(), direct or from the constructor of a TimeBlock.
StartCall ==
    /\ \E s \in ValidStartSamples(timer, wall_clock, cpu_clock) :
         /\ timer' = start(timer, s)
         /\ wall_clock' = startWall(timer, s, wall_clock)
         /\ cpu_clock' = startCpu(timer, s, cpu_clock)
    /\ fault' = "none"
    /\ pre' = Found
    /\ ret' = NoRet
    /\ seg_elapsed' = IF timer.running_ THEN seg_elapsed ELSE <<>>
    /\ UNCHANGED aborted

\* A call that begins with stop() (stop itself, reset, end) and then makes
\* `done` of the stopped timer.  When an assert of stop() has a false
\* condition, a build with assertions aborts there and a build with NDEBUG
\* goes on: both are outcomes.
StopCall(s, done) ==
    /\ wall_clock' = stopWall(timer, s, wall_clock)
    /\ cpu_clock' = stopCpu(timer, s, cpu_clock)
    /\ fault' = stopFault(timer, s)
    /\ pre' = Found
    /\ ret' = NoRet
    /\ seg_elapsed' = <<>>
    /\ \/ /\ aborted' = FALSE
          /\ timer' = done
       \/ /\ stopFault(timer, s) # "none"
          /\ aborted' = TRUE
          /\ timer' = stopAborted(timer, s)

StartStep ==
    /\ ~aborted
    /\ StartCall
    /\ op' = "start"
    /\ UNCHANGED <<block_alive, ended_>>

StopStep ==
    /\ ~aborted
    /\ \E s \in ValidStopSamples(timer, wall_clock, cpu_clock) : StopCall(s, stop(timer, s))
    /\ op' = "stop"
    /\ UNCHANGED <<block_alive, ended_>>

ResetStep(new_run) ==
    /\ ~aborted
    /\ \E s \in ValidStopSamples(timer, wall_clock, cpu_clock) : StopCall(s, reset(timer, new_run, s))
    /\ op' = IF new_run THEN "reset_true" ELSE "reset_false"
    /\ UNCHANGED <<block_alive, ended_>>

Start == StartStep /\ UNCHANGED <<cycles, durations, call, args, stream>>

Stop == StopStep /\ UNCHANGED <<cycles, durations, call, args, stream>>

ResetTrue == ResetStep(TRUE) /\ UNCHANGED <<cycles, durations, call, args, stream>>

ResetFalse == ResetStep(FALSE) /\ UNCHANGED <<cycles, durations, call, args, stream>>

GetElapsedTime ==
    /\ ~aborted
    /\ \E w \in GetWallSamples(timer, wall_clock) :
         /\ wall_clock' = w
         /\ ret' = [NoRet EXCEPT !.val = getElapsedTime(timer, w)]
         /\ seg_elapsed' = IF timer.running_
                             THEN <<getElapsedTime(timer, w)>>
                             ELSE seg_elapsed
    /\ fault' = "none"
    /\ op' = "getElapsedTime"
    /\ pre' = Found
    /\ UNCHANGED <<timer, cpu_clock, block_alive, ended_, aborted, cycles, durations,
                   call, args, stream>>

GetElapsedCpuTime ==
    /\ ~aborted
    /\ \E x \in GetCpuSamples(timer, cpu_clock) :
         /\ cpu_clock' = x.c
         /\ ret' = [NoRet EXCEPT !.val = getElapsedCpuTime(timer, x.ok, x.c)]
    /\ fault' = "none"
    /\ op' = "getElapsedCpuTime"
    /\ pre' = Found
    /\ UNCHANGED <<timer, wall_clock, block_alive, ended_, aborted, seg_elapsed,
                   cycles, durations, call, args, stream>>

\* Timer::toString: getRunTimes() and getCpuRunTimes(), whose results it
\* hands to internalPrint.  The two calls read different clocks, so the order
\* in which the compiler evaluates the arguments makes no difference to them.
\* A direct call of getRunTimes() or of getCpuRunTimes() is this step without
\* the other series: neither writes a member, and a clock that is not read
\* is a clock read at the same instant.
ToString ==
    /\ ~aborted
    /\ \E w \in GetWallSamples(timer, wall_clock) :
         \E x \in GetCpuSamples(timer, cpu_clock) :
           /\ wall_clock' = w
           /\ cpu_clock' = x.c
           /\ ret' = [NoRet EXCEPT !.run_times = getRunTimes(timer, w),
                                   !.cpu_run_times = getCpuRunTimes(timer, x.ok, x.c)]
    /\ fault' = "none"
    /\ op' = "toString"
    /\ pre' = Found
    /\ UNCHANGED <<timer, block_alive, ended_, aborted, seg_elapsed, cycles, durations,
                   call, args, stream>>

\* TimeBlock::TimeBlock( timer )
TimeBlockCtor ==
    /\ ~aborted
    /\ ~block_alive
    /\ StartCall
    /\ block_alive' = TRUE
    /\ ended_' = FALSE
    /\ op' = "TimeBlock"
    /\ UNCHANGED <<cycles, durations, call, args, stream>>

\* TimeBlock::end()
TimeBlockEnd ==
    /\ ~aborted
    /\ block_alive
    /\ \E s \in ValidStopSamples(timer, wall_clock, cpu_clock) : StopCall(s, end(timer, ended_, s))
    /\ ended_' = (ended_ \/ ~aborted')
    /\ op' = "end"
    /\ UNCHANGED <<block_alive, cycles, durations, call, args, stream>>

\* TimeBlock::~TimeBlock(): end(), and the block is gone
TimeBlockDtor ==
    /\ ~aborted
    /\ block_alive
    /\ \E s \in ValidStopSamples(timer, wall_clock, cpu_clock) : StopCall(s, end(timer, ended_, s))
    /\ block_alive' = aborted'
    /\ ended_' = (aborted' /\ ended_)
    /\ op' = "~TimeBlock"
    /\ UNCHANGED <<cycles, durations, call, args, stream>>

-----------------------------------------------------------------------------
(* The timer under every call of its interface, in any order.              *)

Next ==
    \/ Start
    \/ Stop
    \/ ResetTrue
    \/ ResetFalse
    \/ GetElapsedTime
    \/ GetElapsedCpuTime
    \/ ToString

Spec == Init /\ [][Next]_vars

-----------------------------------------------------------------------------
(* The timer under TimeBlocks, one at a time, and under direct calls of    *)
(* start, stop and reset while a block exists or not.                      *)

NextBlock ==
    \/ TimeBlockCtor
    \/ TimeBlockEnd
    \/ TimeBlockDtor
    \/ Start
    \/ Stop
    \/ ResetTrue
    \/ ResetFalse

SpecBlock == Init /\ [][NextBlock]_vars

-----------------------------------------------------------------------------
(* The timer under repetitions of start(); stop(); reset( true ).          *)

CycleStart ==
    /\ op \in {"Timer", "reset_true"}
    /\ cycles < MaxCycles
    /\ StartStep
    /\ UNCHANGED <<cycles, durations, call, args, stream>>

CycleStop ==
    /\ op = "start"
    /\ StopStep
    /\ durations' = IF aborted' THEN durations
                    ELSE Append(durations, timer'.elapsed_time_)
    /\ UNCHANGED <<cycles, call, args, stream>>

CycleReset ==
    /\ op = "stop"
    /\ ResetStep(TRUE)
    /\ cycles' = cycles + 1
    /\ UNCHANGED <<durations, call, args, stream>>

NextCycles == CycleStart \/ CycleStop \/ CycleReset

SpecCycles == Init /\ [][NextCycles]_vars

-----------------------------------------------------------------------------
(* The timer under start, stop and reset in any order, every call kept in  *)
(* full: the timer it found, its argument and the samples its stop() took. *)

InitCalls ==
    /\ \E autostart \in BOOLEAN :
         \E s \in ValidStartSamples(Timer0, 0, 0) :
           /\ autostart \/ s = CHOOSE x \in ValidStartSamples(Timer0, 0, 0) : TRUE
           /\ timer = IF autostart THEN start(Timer0, s) ELSE Timer0
           /\ wall_clock = IF autostart THEN startWall(Timer0, s, 0) ELSE 0
           /\ cpu_clock = IF autostart THEN startCpu(Timer0, s, 0) ELSE 0
           /\ call = [NoCall EXCEPT !.arg = autostart]
    /\ block_alive = FALSE
    /\ ended_ = FALSE
    /\ aborted = FALSE
    /\ fault = "none"
    /\ op = "Timer"
    /\ pre = [running |-> FALSE, runs |-> 0, ended |-> FALSE, seen |-> <<>>]
    /\ ret = NoRet
    /\ seg_elapsed = <<>>
    /\ cycles = 0
    /\ durations = <<>>
    /\ args = NoArgs
    /\ stream = NoStream

CallStart ==
    /\ StartStep
    /\ call' = [NoCall EXCEPT !.found = timer]
    /\ UNCHANGED <<cycles, durations, args, stream>>

CallStop ==
    /\ ~aborted
    /\ \E s \in ValidStopSamples(timer, wall_clock, cpu_clock) :
         /\ StopCall(s, stop(timer, s))
         /\ call' = [found |-> timer, arg |-> FALSE, sampled |-> s]
    /\ op' = "stop"
    /\ UNCHANGED <<block_alive, ended_, cycles, durations, args, stream>>

CallReset(new_run) ==
    /\ ~aborted
    /\ \E s \in ValidStopSamples(timer, wall_clock, cpu_clock) :
         /\ StopCall(s, reset(timer, new_run, s))
         /\ call' = [found |-> timer, arg |-> new_run, sampled |-> s]
    /\ op' = IF new_run THEN "reset_true" ELSE "reset_false"
    /\ UNCHANGED <<block_alive, ended_, cycles, durations, args, stream>>

CallResetTrue == CallReset(TRUE)

CallResetFalse == CallReset(FALSE)

NextCalls ==
    \/ CallStart
    \/ CallStop
    \/ CallResetTrue
    \/ CallResetFalse

SpecCalls == InitCalls /\ [][NextCalls]_vars

-----------------------------------------------------------------------------
(* One run of the timer: its segments under start and stop kept in full,   *)
(* and getElapsedTime read in between.                                     *)

NextSegment ==
    \/ CallStart
    \/ CallStop
    \/ GetElapsedTime

SpecSegment == InitCalls /\ [][NextSegment]_vars

-----------------------------------------------------------------------------
(* printStats and printTimeString on arguments of their own.               *)

\* the entries of a series: the sentinel, a run of no CPU time, three
\* durations, and a negative one, which stop() accumulates when its
\* correction is negative and no assert aborts
Entries == {Sentinel, -2, 0, 100, 200, 300}

Series == UNION { [1 .. n -> Entries] : n \in 0 .. MaxRuns }

\* zero and the times around the thresholds of the automatic unit
Times ==
    { Timespec(0, 0) } \cup
    { Timespec(b[1], b[2] + d) : b \in { <<0, 5000>>, <<0, 5000000>>, <<5, 0>> },
                                 d \in -MaxMargin .. MaxMargin }

InitPrint ==
    /\ timer = Timer0
    /\ wall_clock = 0
    /\ cpu_clock = 0
    /\ block_alive = FALSE
    /\ ended_ = FALSE
    /\ aborted = FALSE
    /\ fault = "none"
    /\ op = "none"
    /\ pre = [running |-> FALSE, runs |-> 0, ended |-> FALSE, seen |-> <<>>]
    /\ ret = NoRet
    /\ seg_elapsed = <<>>
    /\ cycles = 0
    /\ durations = <<>>
    /\ call = NoCall
    /\ \E u \in TimeUnit :
         \/ \E r \in Series :
              args = [NoArgs EXCEPT !.fn = "printStats", !.run_times = r,
                                    !.print_time_unit = u]
         \/ \E t \in Times :
              args = [NoArgs EXCEPT !.fn = "printTimeString", !.time = t,
                                    !.print_time_unit = u]
    /\ stream = NoStream

PrintStats ==
    /\ op = "none"
    /\ args.fn = "printStats"
    /\ stream' = printStats(args.run_times, args.print_time_unit)
    /\ op' = "printStats"
    /\ UNCHANGED <<timer, wall_clock, cpu_clock, block_alive, ended_, aborted, fault,
                   pre, ret, seg_elapsed, cycles, durations, call, args>>

PrintTimeString ==
    /\ op = "none"
    /\ args.fn = "printTimeString"
    /\ stream' = [text |-> printTimeString(args.time, args.print_time_unit)]
    /\ op' = "printTimeString"
    /\ UNCHANGED <<timer, wall_clock, cpu_clock, block_alive, ended_, aborted, fault,
                   pre, ret, seg_elapsed, cycles, durations, call, args>>

NextPrint ==
    \/ PrintStats
    \/ PrintTimeString

SpecPrint == InitPrint /\ [][NextPrint]_vars

-----------------------------------------------------------------------------
(* Properties.                                                             *)

Positive(v) == v > 0

\* seq is longer than old by at most one entry, and begins with old
AppendsAtMostOne(old, seq) ==
    /\ Len(old) <= Len(seq)
    /\ Len(seq) <= Len(old) + 1
    /\ SubSeq(seq, 1, Len(old)) = old

\* C1: the corrected elapsed wall time and the corrected elapsed CPU time of
\* every stop() are non-negative: no assert( elapsed >= 0 ) of stop() has a
\* false condition, whatever non-decreasing samples the clocks deliver.
C1_ElapsedNonNegative == fault = "none"

\* C2: stop() on a timer that is not running changes no member of the timer
\* and fails no assert.
C2_StopWhenStopped ==
    [][(op' = "stop" /\ ~timer.running_) => (timer' = timer /\ ~aborted')]_vars

\* C2, the case: stop() has been called on a stopped timer that holds
\* accumulated wall and CPU time and a committed run.
C2_Witness ==
    /\ op = "stop" /\ ~pre.running
    /\ timer.elapsed_time_ > 0 /\ timer.elapsed_cpu_time_ > 0
    /\ Len(timer.run_times_) > 0

\* C3: start() on a running timer changes no member of the timer; start() on
\* a stopped timer sets running_, stores two fresh wall samples and a fresh
\* sample per CPU time that is valid, and leaves accumulators and histories.
C3_Start ==
    [][op' = "start" =>
         IF timer.running_
           THEN timer' = timer
           ELSE /\ timer'.running_
                /\ wall_clock <= timer'.start_a_
                /\ timer'.start_a_ <= timer'.start_b_
                /\ timer'.start_b_ = wall_clock'
                /\ timer'.cpu_time_valid_a_ =>
                     (cpu_clock <= timer'.cpu_start_a_ /\ timer'.cpu_start_a_ <= cpu_clock')
                /\ timer'.cpu_time_valid_b_ =>
                     (cpu_clock <= timer'.cpu_start_b_ /\ timer'.cpu_start_b_ = cpu_clock')
                /\ timer'.elapsed_time_ = timer.elapsed_time_
                /\ timer'.elapsed_cpu_time_ = timer.elapsed_cpu_time_
                /\ timer'.run_times_ = timer.run_times_
                /\ timer'.cpu_run_times_ = timer.cpu_run_times_]_vars

\* C3, the case: start() has been called on a running timer whose start
\* samples lie behind both clocks.
C3_Witness ==
    /\ op = "start" /\ pre.running /\ timer.running_
    /\ timer.start_b_ < wall_clock
    /\ timer.cpu_time_valid_a_ /\ timer.cpu_start_a_ < cpu_clock

\* C4 as stated: after N repetitions of start(); stop(); reset( true ) both
\* histories have length N and entry i is the duration of repetition i.
C4_LengthIsN ==
    (op = "reset_true" /\ ~aborted) =>
        /\ Len(timer.run_times_) = cycles
        /\ Len(timer.cpu_run_times_) = cycles
        /\ timer.run_times_ = durations

\* C4, amended: after N repetitions of start(); stop(); reset( true ) the
\* wall history holds, in order, the corrected durations of the repetitions
\* whose corrected duration is positive, so both histories have the same
\* length, at most N.
C4_LengthIsPositiveCycles ==
    (op = "reset_true" /\ ~aborted) =>
        /\ Len(durations) = cycles
        /\ timer.run_times_ = SelectSeq(durations, Positive)
        /\ Len(timer.cpu_run_times_) = Len(timer.run_times_)
        /\ Len(timer.run_times_) <= cycles

\* C4, the case: several repetitions are done, some committed a run and some
\* did not.
C4_Witness ==
    /\ op = "reset_true" /\ ~aborted
    /\ cycles >= 2
    /\ Len(timer.run_times_) >= 1
    /\ Len(timer.run_times_) < cycles

\* C5: once the timer has found CPU time unavailable, it stays unavailable
\* until the next reset: every call but reset leaves cpu_time_valid_a_
\* cleared, getElapsedCpuTime() returns -1, and a reset( true ) that commits
\* the run commits the sentinel as its CPU entry.
C5_CpuUnavailableForRun ==
    [][(~timer.cpu_time_valid_a_ /\ ~aborted') =>
         /\ op' \notin {"reset_true", "reset_false"} => ~timer'.cpu_time_valid_a_
         /\ op' = "getElapsedCpuTime" => ret'.val = Sentinel
         /\ (op' = "reset_true" /\ timer'.run_times_ # timer.run_times_) =>
              /\ Len(timer'.cpu_run_times_) = Len(timer.cpu_run_times_) + 1
              /\ timer'.cpu_run_times_[Len(timer'.cpu_run_times_)] = Sentinel]_vars

\* C6 as stated: after the first end() of a TimeBlock, a further end() and
\* the destructor change no member of the timer.
C6_EndOnceNoEffect ==
    [][(op' \in {"end", "~TimeBlock"} /\ ended_ /\ ~aborted') => timer' = timer]_vars

\* C6, amended: a TimeBlock performs reset( true ) exactly once: the first
\* end() (or the destructor, if end() was never called) leaves the timer
\* stopped with zero accumulators; a further end() and the destructor only
\* call stop(): they leave both histories as they are, leave the timer
\* stopped, and change no member of a timer that is not running.
C6_ResetOnce ==
    [][(op' \in {"end", "~TimeBlock"} /\ ~aborted') =>
         IF ended_
           THEN /\ timer'.run_times_ = timer.run_times_
                /\ timer'.cpu_run_times_ = timer.cpu_run_times_
                /\ ~timer'.running_
                /\ ~timer.running_ => timer' = timer
           ELSE /\ ~timer'.running_
                /\ timer'.elapsed_time_ = 0
                /\ timer'.elapsed_cpu_time_ = 0
                /\ AppendsAtMostOne(timer.run_times_, timer'.run_times_)
                /\ AppendsAtMostOne(timer.cpu_run_times_, timer'.cpu_run_times_)]_vars

\* C6, the case: end() has been called on a block that had ended, after the
\* timer had been used again and holds accumulated time.
C6_Witness ==
    /\ op = "end" /\ pre.ended /\ ~aborted
    /\ ~pre.running
    /\ timer.elapsed_time_ > 0

\* C7: after reset( false ) both histories are empty and both accumulators
\* are zero.
C7_ResetFalseClears ==
    (op = "reset_false" /\ ~aborted) =>
        /\ timer.run_times_ = <<>>
        /\ timer.cpu_run_times_ = <<>>
        /\ timer.elapsed_time_ = 0
        /\ timer.elapsed_cpu_time_ = 0

\* C7, the case: reset( false ) has been called on a running timer with
\* committed runs.
C7_Witness ==
    /\ op = "reset_false" /\ ~aborted
    /\ pre.running /\ pre.runs >= 1

\* C8: reset( true ) appends at most one entry to each history and changes
\* no existing entry, reset( false ) empties both, and no other call changes
\* either history.
C8_HistoryOnlyByReset ==
    [][~aborted' =>
         CASE op' = "reset_true" ->
                /\ AppendsAtMostOne(timer.run_times_, timer'.run_times_)
                /\ AppendsAtMostOne(timer.cpu_run_times_, timer'.cpu_run_times_)
           [] op' = "reset_false" ->
                /\ timer'.run_times_ = <<>>
                /\ timer'.cpu_run_times_ = <<>>
           [] OTHER ->
                /\ timer'.run_times_ = timer.run_times_
                /\ timer'.cpu_run_times_ = timer.cpu_run_times_]_vars

\* C8, the case: stop() has ended a segment with positive wall time on a
\* timer that has a committed run.
C8_Witness ==
    /\ op = "stop" /\ pre.running /\ ~aborted
    /\ pre.runs >= 1 /\ Len(timer.run_times_) = pre.runs
    /\ timer.elapsed_time_ > 0

\* C9: the committed histories have equal length, and so have the two
\* series that toString() obtains from getRunTimes() and getCpuRunTimes().
C9_Parallel ==
    /\ Len(timer.run_times_) = Len(timer.cpu_run_times_)
    /\ op = "toString" => Len(ret.run_times) = Len(ret.cpu_run_times)

\* C10: of two getElapsedTime() calls on a running timer with no stop() or
\* reset() between them, the later returns no less than the earlier.
C10_ElapsedMonotone ==
    (op = "getElapsedTime" /\ pre.running /\ pre.seen # <<>>) => pre.seen[1] <= ret.val

\* C10, the case: getElapsedTime() has been called twice on a running timer
\* and the wall clock moved between the calls.
C10_Witness ==
    /\ op = "getElapsedTime" /\ pre.running
    /\ pre.seen # <<>>
    /\ pre.seen[1] < ret.val

\* C11: reset( new_run ) leaves the timer stopped with both accumulators zero
\* and both CPU validity flags set; reset( true ) appends the wall
\* accumulator and the CPU accumulator (the sentinel if CPU time is
\* unavailable), as its stop() left them, exactly when the wall accumulator
\* is nonzero, and appends nothing otherwise.
C11_ResetCommitsNonzero ==
    (op \in {"reset_true", "reset_false"} /\ ~aborted) =>
        LET stopped == stop(call.found, call.sampled)
        IN  /\ ~timer.running_
            /\ timer.elapsed_time_ = 0 /\ timer.elapsed_cpu_time_ = 0
            /\ timer.cpu_time_valid_a_ /\ timer.cpu_time_valid_b_
            /\ op = "reset_true" =>
                  IF stopped.elapsed_time_ # 0
                    THEN /\ timer.run_times_ =
                              Append(call.found.run_times_, stopped.elapsed_time_)
                         /\ timer.cpu_run_times_ =
                              Append(call.found.cpu_run_times_,
                                     IF stopped.cpu_time_valid_a_
                                       THEN stopped.elapsed_cpu_time_
                                       ELSE Sentinel)
                    ELSE /\ timer.run_times_ = call.found.run_times_
                         /\ timer.cpu_run_times_ = call.found.cpu_run_times_

\* the wall time between the start sample `from` and the stop sample `to`
Between(from, to) == to - from

\* 1.5 * inner - 0.5 * outer as stop() computes it for two durations that are
\* not negative: each half is rounded down on its own
Corrected(inner, outer) == inner + (inner \div 2) - (outer \div 2)

\* stop() has ended a segment and has run to its end
Stopped == op = "stop" /\ call.found.running_ /\ ~aborted

StoppedWithCpu ==
    /\ Stopped
    /\ call.found.cpu_time_valid_a_ /\ call.found.cpu_time_valid_b_
    /\ call.sampled.ca_ok /\ call.sampled.cb_ok

\* the durations between the samples of the segment that the last stop()
\* ended: inner = between the samples b, outer = between the samples a
WallInner == Between(call.found.start_b_, call.sampled.wb)
WallOuter == Between(call.found.start_a_, call.sampled.wa)
CpuInner == Between(call.found.cpu_start_b_, call.sampled.cb)
CpuOuter == Between(call.found.cpu_start_a_, call.sampled.ca)

\* what the last stop() added to the accumulators
WallAdded == timer.elapsed_time_ - call.found.elapsed_time_
CpuAdded == timer.elapsed_cpu_time_ - call.found.elapsed_cpu_time_

C14_NoDivisionByZero ==
    (op = "printStats" /\ stream.count = 0) =>
        /\ stream.text = "None of the runs had valid times!"
        /\ stream.zero_division = {}

\* the reference statistics of a series
NotSentinel(time) == time # -1

ValidEntries(run_times) == SelectSeq(run_times, NotSentinel)

RECURSIVE RefSum(_)
RefSum(seq) == IF seq = <<>> THEN 0 ELSE Head(seq) + RefSum(Tail(seq))

RefMin(seq) == CHOOSE x \in { seq[i] : i \in DOMAIN seq } :
                   \A i \in DOMAIN seq : x <= seq[i]

RefMax(seq) == CHOOSE x \in { seq[i] : i \in DOMAIN seq } :
                   \A i \in DOMAIN seq : x >= seq[i]

\* the double q is the quotient n / d
IsQuotient(q, n, d) == ~q.nan /\ q.num * d = n * q.den

\* the warning line "Only <count> of <total> had valid times!" was written
Warned == stream.text = "statistics" /\ stream.warning

\* C15 as stated: the statistics count the entries other than the sentinel,
\* their mean, minimum, maximum and sum are those of these entries, and the
\* warning line is written exactly when the count differs from the length
\* of the series.
C15_SentinelExcluded ==
    op = "printStats" =>
        LET valid == ValidEntries(args.run_times)
        IN  /\ stream.count = Len(valid)
            /\ Len(valid) > 0 =>
                  /\ stream.sum = RefSum(valid)
                  /\ IsQuotient(stream.mean, RefSum(valid), Len(valid))
                  /\ stream.min = RefMin(valid)
                  /\ stream.max = RefMax(valid)
            /\ Warned <=> Len(valid) # Len(args.run_times)

\* C15, amended: the statistics count the entries other than the sentinel;
\* with a count of zero only "None of the runs had valid times!" is written,
\* without the warning line; otherwise mean, minimum and sum are those of
\* the counted entries, the maximum is the largest counted entry or 0 if
\* none is positive, and the warning line is written exactly when the count
\* differs from the length of the series.
C15_SentinelExcludedIfCounted ==
    op = "printStats" =>
        LET valid == ValidEntries(args.run_times)
        IN  /\ stream.count = Len(valid)
            /\ Len(valid) = 0 =>
                  /\ stream.text = "None of the runs had valid times!"
                  /\ ~Warned
            /\ Len(valid) > 0 =>
                  /\ stream.text = "statistics"
                  /\ stream.sum = RefSum(valid)
                  /\ IsQuotient(stream.mean, RefSum(valid), Len(valid))
                  /\ stream.min = RefMin(valid)
                  /\ stream.max = IF RefMax(valid) > 0 THEN RefMax(valid) ELSE 0
                  /\ Warned <=> Len(valid) # Len(args.run_times)

\* C15, the case: printStats has been called on a series of one sentinel and
\* two valid entries, and has written the warning line for 2 of 3.
C15_Witness ==
    /\ op = "printStats"
    /\ Len(args.run_times) = 3
    /\ Len(ValidEntries(args.run_times)) = 2
    /\ stream.count = 2
    /\ Warned

\* the sum of ( count * x - sum ) ^ 2 over the entries x of seq
RECURSIVE RefSquares(_, _, _)
RefSquares(seq, sum, count) ==
    IF seq = <<>> THEN 0
    ELSE (count * Head(seq) - sum) * (count * Head(seq) - sum)
           + RefSquares(Tail(seq), sum, count)

\* C16: for a series with at least two valid entries printStats reports their
\* arithmetic mean, their sample variance with count - 1 as denominator (of
\* which the standard deviation is the root), their minimum, maximum and
\* sum; for [100, 200, 300] these are mean 200, standard deviation 100,
\* minimum 100, maximum 300 and sum 600.
C16_ReferenceStatistics ==
    (op = "printStats" /\ Len(ValidEntries(args.run_times)) >= 2) =>
        LET valid == ValidEntries(args.run_times)
            n == Len(valid)
        IN  /\ IsQuotient(stream.mean, RefSum(valid), n)
            /\ IsQuotient(stream.var, RefSquares(valid, RefSum(valid), n), n * n * (n - 1))
            /\ stream.min = RefMin(valid)
            /\ stream.max = RefMax(valid)
            /\ stream.sum = RefSum(valid)
            /\ args.run_times = <<100, 200, 300>> =>
                  /\ IsQuotient(stream.mean, 200, 1)
                  /\ IsQuotient(stream.var, 100 * 100, 1)
                  /\ stream.min = 100 /\ stream.max = 300 /\ stream.sum = 600

\* C17: with the automatic unit a time is written in nanoseconds iff it is
\* below 5000 ns, in microseconds iff it is at least 5000 ns and below
\* 5,000,000 ns, in milliseconds iff it is at least 5,000,000 ns and below
\* 5 * 10^9 ns, and in seconds otherwise: 4999 ns and 5000 ns, 4,999,999 ns
\* and 5,000,000 ns lie on different sides.
C17_AutoUnit ==
    (op = "printTimeString" /\ args.print_time_unit = "Default") =>
        LET s == args.time.s
            ns == args.time.ns
        IN  /\ stream.text = "ns" <=> (s < 0 \/ (s = 0 /\ ns <= 4999))
            /\ stream.text = "us" <=> (s = 0 /\ ns >= 5000 /\ ns <= 4999999)
            /\ stream.text = "ms" <=> ((s = 0 /\ ns >= 5000000) \/ (s >= 1 /\ s <= 4))
            /\ stream.text = "s" <=> s >= 5
            /\ args.time = Timespec(0, 4999) => stream.text = "ns"
            /\ args.time = Timespec(0, 5000) => stream.text = "us"
            /\ args.time = Timespec(0, 4999999) => stream.text = "us"
            /\ args.time = Timespec(0, 5000000) => stream.text = "ms"
            /\ args.time = Timespec(4, 999999999) => stream.text = "ms"
            /\ args.time = Timespec(5, 0) => stream.text = "s"

\* C17, the case: the time 5000 ns has been written with the automatic unit.
C17_Witness ==
    /\ op = "printTimeString" /\ args.print_time_unit = "Default"
    /\ args.time = Timespec(0, 5000)
    /\ stream.text = "us"

\* C18: getElapsedTime() and getElapsedCpuTime() change no member of the
\* timer; getElapsedTime() returns the wall accumulator plus, if running, the
\* time from the second start sample to now; getElapsedCpuTime() returns -1
\* if CPU time is unavailable (the flag is cleared, or the sample it takes
\* fails), else the CPU accumulator plus, if running, the CPU time from the
\* first CPU start sample to now.
C18_GettersRead ==
    [][/\ op' = "getElapsedTime" =>
            /\ timer' = timer
            /\ ret'.val = timer.elapsed_time_
                  + (IF timer.running_ THEN wall_clock' - timer.start_b_ ELSE 0)
       /\ op' = "getElapsedCpuTime" =>
            /\ timer' = timer
            /\ ~timer.cpu_time_valid_a_ => ret'.val = -1
            /\ (timer.cpu_time_valid_a_ /\ ~timer.running_) =>
                  ret'.val = timer.elapsed_cpu_time_
            /\ (timer.cpu_time_valid_a_ /\ timer.running_) =>
                  \/ ret'.val = -1 /\ cpu_clock' = cpu_clock
                  \/ ret'.val = timer.elapsed_cpu_time_
                                  + (cpu_clock' - timer.cpu_start_a_)]_vars

\* C18, the case: getElapsedTime() has been called on a running timer that
\* had accumulated wall time, some time after its start samples.
C18_Witness ==
    /\ op = "getElapsedTime" /\ pre.running
    /\ timer.elapsed_time_ > 0
    /\ ret.val > timer.elapsed_time_

\* C19: right after construction the timer is running if autostart was true
\* and stopped if it was false, and in both cases both accumulators are zero
\* and both histories are empty.
C19_Constructed ==
    op = "Timer" =>
        /\ timer.running_ = call.arg
        /\ timer.elapsed_time_ = 0 /\ timer.elapsed_cpu_time_ = 0
        /\ timer.run_times_ = <<>> /\ timer.cpu_run_times_ = <<>>

\* C19, the case: a timer has been constructed with autostart and has taken
\* its start samples while the clocks moved.
C19_Witness ==
    /\ op = "Timer" /\ call.arg
    /\ timer.running_
    /\ timer.start_a_ < timer.start_b_
    /\ timer.cpu_time_valid_a_ /\ timer.cpu_start_a_ > 0

\* C20: whenever the wall series that toString() obtains from getRunTimes()
\* has exactly one entry, the CPU series it obtains from getCpuRunTimes() has
\* at least one, so that the report of a single run reads cpu_run_times[0]
\* of a series that has it.
C20_SingleRunHasCpuEntry ==
    (op = "toString" /\ Len(ret.run_times) = 1) => Len(ret.cpu_run_times) >= 1

\* C21: every committed wall entry is positive, every committed CPU entry is
\* the sentinel or not negative, and both accumulators are not negative.
C21_NonNegative ==
    /\ \A i \in DOMAIN timer.run_times_ : timer.run_times_[i] > 0
    /\ \A i \in DOMAIN timer.cpu_run_times_ :
          timer.cpu_run_times_[i] = Sentinel \/ timer.cpu_run_times_[i] >= 0
    /\ timer.elapsed_time_ >= 0
    /\ timer.elapsed_cpu_time_ >= 0

\* what the last stop() took off the inner wall duration: half the
\* difference of the outer and the inner duration, each half rounded down,
\* and twice the CPU drift if all four CPU samples succeeded
Correction ==
    (WallOuter \div 2) - (WallInner \div 2)
      + 2 * (IF StoppedWithCpu THEN CpuOuter - CpuInner ELSE 0)

\* C22 as stated: the value getElapsedTime() returns right after stop() is
\* not smaller than the values it returned while the timer was running in
\* the segment that stop() ended (of which the latest is the largest).
C22_StopNotSmaller ==
    (Stopped /\ pre.seen # <<>>) => getElapsedTime(timer, wall_clock) >= pre.seen[1]

\* C22, amended: the value getElapsedTime() returns right after stop() is
\* the wall accumulator before the segment plus the inner duration of the
\* segment minus the correction, which is not negative; a value returned
\* while the timer was running in the segment is at most the accumulator
\* plus the inner duration, so the value after stop() is smaller than it by
\* the correction at most, and not smaller if the correction is zero.
C22_StopTakesOffCorrection ==
    Stopped =>
        /\ Correction >= 0
        /\ getElapsedTime(timer, wall_clock)
              = call.found.elapsed_time_ + WallInner - Correction
        /\ pre.seen # <<>> =>
              /\ pre.seen[1] <= call.found.elapsed_time_ + WallInner
              /\ getElapsedTime(timer, wall_clock) >= pre.seen[1] - Correction
              /\ Correction = 0 => getElapsedTime(timer, wall_clock) >= pre.seen[1]

\* C22, the case: stop() has ended a segment in which getElapsedTime() had
\* returned a value, no assert of stop() has a false condition, and the value
\* after stop() is the smaller one.
C22_Witness ==
    /\ Stopped /\ fault = "none"
    /\ pre.seen # <<>>
    /\ getElapsedTime(timer, wall_clock) < pre.seen[1]
    /\ getElapsedTime(timer, wall_clock) >= 0

====
